---- MODULE Spec2Model ----
(***************************************************************************)
(* Movie quiz question generator.                                          *)
(*                                                                         *)
(*   src/project/scripts/question_gen.py          read_robust_csv,         *)
(*                                                sample_distractors,      *)
(*                                                make_questions           *)
(*   src/project/project/scripts/question_gen.py  load_dataset,            *)
(*                                                sample_distractors,      *)
(*                                                q_year .. q_genre,       *)
(*                                                generate_quiz,           *)
(*                                                sample_other and the     *)
(*                                                script-level loop        *)
(*                                                                         *)
(* A Python string is a sequence of symbols.  A symbol is one of the       *)
(* characters the code looks at (",", "|", " ") or a word: a run of other  *)
(* characters, such as "Action" or "1999".  str.split, str.strip and       *)
(* str.join are computed on that sequence.  A cell of a data frame is a    *)
(* tagged value: NaN, None, a string, an int64 or a float64.               *)
(* A data frame is a sequence of rows; a column is object when it holds a  *)
(* string or None, and float64 when it holds a number and a NaN.           *)
(***************************************************************************)
EXTENDS Integers, Sequences, FiniteSets, TLC

VARIABLES
    gen,      \* which generator runs: "make_questions", "generate_quiz", "script"
    raw,      \* the data set as pd.read_csv parses the file
    df,       \* the data frame the generator reads
    n,        \* n_questions / n: the requested number of questions
    pc,       \* "loop", "sampled", "appended", "done" (returned),
              \* "raised" (an exception left the generator)
    i,        \* index of the row the loop is at
    phase,    \* script loop: which of the two questions of the row is next
    visited,  \* generate_quiz: the rows df.sample has delivered so far
    nout,     \* len(out) / len(quiz) / len(questions)
    cur,      \* the locals of the question being built: correct, distractors
    item,     \* the dict just appended
    lines,    \* load_dataset: the lines of the text at url
    rows,     \* load_dataset fallback: the rows list
    frame,    \* load_dataset: the data frame returned
    lpc,      \* load_dataset: position
    run,      \* two calls in one process: the call in progress (1, 2), 3 after both
    seed,     \* two calls: the seed argument
    rng,      \* two calls: the states of the process's random and np.random
    todo,     \* two calls: the rows the loop has still to visit
    out,      \* two calls: the list the call in progress has built
    outs      \* two calls: the list each call returned

vars == <<gen, raw, df, n, pc, i, phase, visited, nout, cur, item,
          lines, rows, frame, lpc, run, seed, rng, todo, out, outs>>

genVars == <<gen, raw, df, n, pc, i, phase, visited, nout, cur, item>>
loadVars == <<lines, rows, frame, lpc>>
detVars == <<run, seed, rng, todo, out, outs>>
input == <<gen, raw, df, n>>

----------------------------------------------------------------------------
(* Bounds *)

MaxRows == 5     \* rows of a data set
MaxCount == 2    \* requested number of questions
MaxLines == 3    \* data lines of a file
RngMod == 4      \* states of a random generator

(* Program constants *)

K == 3           \* distractors asked for
MaxChoices == 4  \* choices[:4]
ExpectedCols == 6

----------------------------------------------------------------------------
(* Cells and strings *)

NaN == [t |-> "nan", v |-> <<>>]
None == [t |-> "none", v |-> <<>>]
StrCell(s) == [t |-> "str", v |-> s]
IntCell(y) == [t |-> "int", v |-> <<y>>]
FloatCell(y) == [t |-> "float", v |-> <<y>>]   \* an integral float64: prints as y.0
DecCell(y) == [t |-> "dec", v |-> <<y>>]       \* a float64 with decimals: prints as y

\* pd.isna
isna(x) == x.t \in {"nan", "none"}

\* str(x), Series.astype(str)
str(x) ==
    CASE x.t = "nan" -> <<"nan">>
      [] x.t = "none" -> <<"None">>
      [] x.t = "float" -> x.v \o <<".0">>
      [] OTHER -> x.v

\* int(x) of a numeric cell; raises ValueError on NaN
int(x) == IntCell(x.v[1])

SetMin(S) == CHOOSE a \in S : \A b \in S : a <= b
SetMax(S) == CHOOSE a \in S : \A b \in S : a >= b
Minimum(a, b) == IF a <= b THEN a ELSE b

\* d in s
contains(s, d) == \E j \in 1..Len(s) : s[j] = d

\* s.strip()
strip(s) ==
    LET keep == {j \in 1..Len(s) : s[j] # " "}
    IN IF keep = {} THEN <<>> ELSE SubSeq(s, SetMin(keep), SetMax(keep))

\* s.split(d)
RECURSIVE split(_, _)
split(s, d) ==
    IF ~contains(s, d) THEN <<s>>
    ELSE LET k == SetMin({j \in 1..Len(s) : s[j] = d})
         IN <<SubSeq(s, 1, k - 1)>> \o split(SubSeq(s, k + 1, Len(s)), d)

\* d.join(parts)
RECURSIVE join(_, _)
join(parts, d) ==
    IF Len(parts) = 0 THEN <<>>
    ELSE IF Len(parts) = 1 THEN parts[1]
    ELSE parts[1] \o <<d>> \o join(Tail(parts), d)

\* xs[:m]
Take(xs, m) == SubSeq(xs, 1, Minimum(m, Len(xs)))

Range(xs) == {xs[j] : j \in 1..Len(xs)}

\* [x for x in xs if x != c]
RECURSIVE without(_, _)
without(xs, c) ==
    IF xs = <<>> THEN <<>>
    ELSE (IF Head(xs) = c THEN <<>> ELSE <<Head(xs)>>) \o without(Tail(xs), c)

\* Series.unique(): first occurrences, in order
RECURSIVE unique(_)
unique(xs) ==
    IF xs = <<>> THEN <<>>
    ELSE <<Head(xs)>> \o unique(without(Tail(xs), Head(xs)))

\* Series.dropna().astype(str)
RECURSIVE dropna_str(_)
dropna_str(col) ==
    IF col = <<>> THEN <<>>
    ELSE (IF isna(Head(col)) THEN <<>> ELSE <<str(Head(col))>>) \o dropna_str(Tail(col))

\* df[field]
Col(d, field) == [j \in 1..Len(d) |-> d[j][field]]

CountOf(xs, x) == Cardinality({j \in 1..Len(xs) : xs[j] = x})
NoDup(xs) == \A a, b \in 1..Len(xs) : a # b => xs[a] # xs[b]

----------------------------------------------------------------------------
(* The random module.  A call returns one of the values below. *)

Injections(k, m) ==
    {p \in [1..k -> 1..m] : \A a, b \in 1..k : a # b => p[a] # p[b]}

\* random.sample(population, k), defined for k <= len(population)
sample(population, k) ==
    {[j \in 1..k |-> population[p[j]]] : p \in Injections(k, Len(population))}

\* random.shuffle(x)
shuffle(x) ==
    {[j \in 1..Len(x) |-> x[p[j]]] : p \in Injections(Len(x), Len(x))}

----------------------------------------------------------------------------
(* Data sets.  A data set is a choice of at most MaxRows rows of the       *)
(* catalogue, in catalogue order, as pd.read_csv parses them: an empty     *)
(* cell is NaN, a string cell keeps its blanks.  The cells are those of    *)
(* hand-made files: a duplicated actor, "|" and ", " between genre tags, a *)
(* genre field that begins with the delimiter, a row of empty cells, a row *)
(* with blank cells and no title.                                          *)

Movie(title, year, actor, director, genres, rating) ==
    [title |-> title, year |-> year, main_actor |-> actor, director |-> director,
     genres |-> genres, rating |-> rating, genres_list |-> <<>>]

Catalogue ==
    << Movie(StrCell(<<"Matrix">>), IntCell("1999"), StrCell(<<"Reeves">>),
             StrCell(<<"Wachowski">>), StrCell(<<"Action", "|", "SciFi">>),
             DecCell("8.7")),
       Movie(StrCell(<<"Up">>), IntCell("2009"), StrCell(<<"Asner">>),
             StrCell(<<"Docter">>), StrCell(<<"Animation">>), DecCell("8.3")),
       Movie(StrCell(<<"Speed">>), IntCell("1994"), StrCell(<<"Reeves">>),
             StrCell(<<"deBont">>), StrCell(<<"Action", ",", " ", "Drama">>),
             DecCell("7.3")),
       Movie(StrCell(<<"Inception">>), IntCell("2010"), StrCell(<<"DiCaprio">>),
             StrCell(<<"Nolan">>), StrCell(<<"|", "SciFi">>), DecCell("8.8")),
       Movie(StrCell(<<"Lost">>), NaN, NaN, NaN, NaN, NaN),
       Movie(NaN, IntCell("1988"), StrCell(<<" ">>),
             StrCell(<<"Marshall">>), StrCell(<<" ">>), DecCell("7.3")) >>

RECURSIVE Pick(_)
Pick(I) ==
    IF I = {} THEN <<>>
    ELSE <<Catalogue[SetMin(I)]>> \o Pick(I \ {SetMin(I)})

Datasets ==
    {Pick(I) : I \in {J \in SUBSET (1..Len(Catalogue)) : Cardinality(J) <= MaxRows}}

\* a numeric column that holds a NaN is float64: its integers print as y.0
promote(d, c) ==
    LET anyNaN == \E m \in 1..Len(d) : d[m][c].t = "nan"
    IN [j \in 1..Len(d) |->
          IF d[j][c].t = "int" /\ anyNaN THEN FloatCell(d[j][c].v[1]) ELSE d[j][c]]

\* pd.read_csv of a file whose rows all have the header's length
read_csv(parsed) ==
    [j \in 1..Len(parsed) |-> [parsed[j] EXCEPT !.year = promote(parsed, "year")[j]]]

----------------------------------------------------------------------------
(* scripts/question_gen.py *)

\* sample_distractors(df, correct_value, field, n)
sample_distractors_n(d, correct_value, field, m) ==
    LET candidates == without(unique(dropna_str(Col(d, field))), str(correct_value))
    IN IF candidates = <<>> THEN {<<>>}
       ELSE sample(candidates, Minimum(m, Len(candidates)))

\* correct.split(",")[0].split("|")[0].strip(), or str(correct)
correct_first(correct) ==
    IF correct.t = "str" /\ (contains(correct.v, ",") \/ contains(correct.v, "|"))
    THEN strip(split(split(correct.v, ",")[1], "|")[1])
    ELSE str(correct)

QTypes == {"year", "actor", "genre"}

mq_field(qtype) ==
    CASE qtype = "year" -> "year"
      [] qtype = "actor" -> "main_actor"
      [] OTHER -> "genres"

\* the continue statements of the loop body
mq_continue(row, qtype) == isna(row.title) \/ isna(row[mq_field(qtype)])

\* the answer the branch stores
mq_correct(row, qtype) ==
    IF qtype = "genre" THEN correct_first(row.genres) ELSE str(row[mq_field(qtype)])

\* choices = ([str(correct)] + distract)[:4]
mq_choices(correct, distract) == Take(<<correct>> \o distract, MaxChoices)

\* d1..d4: choices[j] if len(choices) > j else ""
slots(choices) == [j \in 1..MaxChoices |-> IF j <= Len(choices) THEN choices[j] ELSE <<>>]

Locals(type, title, correct, distractors) ==
    [type |-> type, title |-> title, correct |-> correct, distractors |-> distractors]

Item(type, title, correct, options) ==
    [type |-> type, question |-> title, correct |-> correct, options |-> options]

NoLocals == Locals("none", <<>>, <<>>, <<>>)
NoItem == Item("none", <<>>, <<>>, <<>>)

\* the same, one question late
mq_break_late(len, want) == len > want

\* if len(out) >= n_questions: break
mq_break(len, want) == len >= want

\* one of the continue statements: nothing is appended for the row
MQ_Continue ==
    /\ gen = "make_questions" /\ pc = "loop" /\ i <= Len(df)
    /\ \E qtype \in QTypes : mq_continue(df[i], qtype)
    /\ i' = i + 1
    /\ UNCHANGED <<input, pc, phase, visited, nout, cur, item, loadVars, detVars>>

\* qtype = random.choice(...); correct = ...; distract = sample_distractors(...)
MQ_Sample ==
    /\ gen = "make_questions" /\ pc = "loop" /\ i <= Len(df)
    /\ \E qtype \in QTypes :
         /\ ~mq_continue(df[i], qtype)
         /\ \E distract \in sample_distractors_n(df, StrCell(mq_correct(df[i], qtype)),
                                                  mq_field(qtype), K) :
              cur' = Locals(qtype, str(df[i].title), mq_correct(df[i], qtype), distract)
    /\ pc' = "sampled"
    /\ UNCHANGED <<input, i, phase, visited, nout, item, loadVars, detVars>>

\* choices = ...; random.shuffle(choices); out.append({...})
MQ_Append ==
    /\ gen = "make_questions" /\ pc = "sampled"
    /\ \E choices \in shuffle(mq_choices(cur.correct, cur.distractors)) :
         item' = Item(cur.type, cur.title, cur.correct, slots(choices))
    /\ nout' = nout + 1
    /\ cur' = NoLocals
    /\ pc' = "appended"
    /\ UNCHANGED <<input, i, phase, visited, loadVars, detVars>>

\* the end of the loop body: break, or on to the next row
MQ_Break ==
    /\ gen = "make_questions" /\ pc = "appended"
    /\ IF mq_break(nout, n)
       THEN pc' = "done" /\ i' = i
       ELSE pc' = "loop" /\ i' = i + 1
    /\ item' = NoItem
    /\ UNCHANGED <<input, phase, visited, nout, cur, loadVars, detVars>>

\* the rows are exhausted: return out
MQ_Return ==
    /\ gen = "make_questions" /\ pc = "loop" /\ i > Len(df)
    /\ pc' = "done"
    /\ UNCHANGED <<input, i, phase, visited, nout, cur, item, loadVars, detVars>>

----------------------------------------------------------------------------
(* project/scripts/question_gen.py: load_dataset, cleaning *)

\* df[c].astype(str).str.strip() of an object column
clean_str(x) == StrCell(strip(str(x)))

\* [g.strip() for g in pieces if g.strip()]
RECURSIVE stripped_nonempty(_)
stripped_nonempty(pieces) ==
    IF pieces = <<>> THEN <<>>
    ELSE (IF strip(Head(pieces)) = <<>> THEN <<>> ELSE <<strip(Head(pieces))>>)
         \o stripped_nonempty(Tail(pieces))

split_genres(x) ==
    IF isna(x) THEN <<>>
    ELSE IF contains(x.v, "|") THEN stripped_nonempty(split(x.v, "|"))
    ELSE stripped_nonempty(split(x.v, ","))

\* df[c].dtype == object
is_object(d, c) == \E j \in 1..Len(d) : d[j][c].t \in {"str", "none"}

\* for c in df.columns: if df[c].dtype == object: df[c] = df[c].astype(str).str.strip()
stripped(d) ==
    [j \in 1..Len(d) |->
        [c \in DOMAIN d[j] |->
            IF c # "genres_list" /\ is_object(d, c) THEN clean_str(d[j][c]) ELSE d[j][c]]]

IntTokens == {"1999", "2009", "1994", "2010", "1988"}
DecTokens == {"8.7", "8.3", "7.3", "8.8"}

\* pd.to_numeric(x, errors='coerce') of one cell
to_numeric(x) ==
    IF x.t \in {"str", "none"}
    THEN IF x.t = "str" /\ Len(strip(x.v)) = 1 /\ strip(x.v)[1] \in IntTokens
         THEN IntCell(strip(x.v)[1])
         ELSE IF x.t = "str" /\ Len(strip(x.v)) = 1 /\ strip(x.v)[1] \in DecTokens
         THEN DecCell(strip(x.v)[1])
         ELSE NaN
    ELSE x

\* df[c] = pd.to_numeric(df[c], errors='coerce')
numeric(d, c) ==
    LET coerced == [j \in 1..Len(d) |-> [d[j] EXCEPT ![c] = to_numeric(@)]]
    IN [j \in 1..Len(d) |-> [coerced[j] EXCEPT ![c] = promote(coerced, c)[j]]]

\* df['genres_list'] = df['genres'].apply(split_genres)
with_genres_list(d) ==
    [j \in 1..Len(d) |-> [d[j] EXCEPT !.genres_list = split_genres(d[j].genres)]]

\* load_dataset after the parse: clean and normalize, convert, split
load_clean(d) == with_genres_list(numeric(numeric(stripped(d), "year"), "rating"))

----------------------------------------------------------------------------
(* project/scripts/question_gen.py: generate_quiz *)

\* sample_distractors(df, col, correct, k)
sample_distractors_k(d, col, correct, k) ==
    LET vals == without(unique(dropna_str(Col(d, col))), str(correct))
    IN IF Len(vals) < k THEN sample(vals, Len(vals)) ELSE sample(vals, k)

Templates == {"year", "actor", "director", "genre"}

q_field(t) ==
    CASE t = "year" -> "year"
      [] t = "actor" -> "main_actor"
      [] t = "director" -> "director"
      [] OTHER -> "genres"

\* int(row['year']) raises ValueError on NaN
q_raises(row, t) == t = "year" /\ isna(row.year)

\* q_genre returns None
q_none(row, t) == t = "genre" /\ Len(row.genres_list) = 0

\* q_year, q_actor, q_director: correct
q_correct(row, t) == IF t = "year" THEN int(row.year) ELSE row[q_field(t)]

\* all_genres = list({g for sub in df['genres_list'] for g in sub})
all_genres(d) == UNION {Range(d[j].genres_list) : j \in 1..Len(d)}

\* the orders a list built from a set may have
orderings(S) ==
    {p \in [1..Cardinality(S) -> S] : \A a, b \in 1..Cardinality(S) : a # b => p[a] # p[b]}

\* distractors = [g for g in all_genres if g != correct]
genre_pool(d, correct) == all_genres(d) \ {correct}

\* q_genre: distractors, given correct
genre_distractors(d, correct) ==
    UNION {IF Len(pool) >= K THEN sample(pool, K) ELSE {pool}
             : pool \in orderings(genre_pool(d, correct))}

\* the values correct and distractors may have before options is built
q_locals(d, row, t) ==
    IF t = "genre"
    THEN UNION {{Locals(t, str(row.title), correct, distractors)
                   : distractors \in genre_distractors(d, correct)}
                 : correct \in Range(row.genres_list)}
    ELSE {Locals(t, str(row.title), str(q_correct(row, t)), distractors)
            : distractors \in sample_distractors_k(d, q_field(t), q_correct(row, t), K)}

\* sample_rows = df.sample(n=min(n, len(df)))
sample_size(d, want) == Minimum(want, Len(d))

\* a template raises: the exception leaves generate_quiz
Quiz_Raise ==
    /\ gen = "generate_quiz" /\ pc = "loop"
    /\ Cardinality(visited) < sample_size(df, n)
    /\ \E r \in (1..Len(df)) \ visited : \E t \in Templates :
         /\ q_raises(df[r], t)
         /\ visited' = visited \cup {r}
         /\ i' = r
    /\ pc' = "raised"
    /\ UNCHANGED <<input, phase, nout, cur, item, loadVars, detVars>>

\* q is None: nothing is appended
Quiz_None ==
    /\ gen = "generate_quiz" /\ pc = "loop"
    /\ Cardinality(visited) < sample_size(df, n)
    /\ \E r \in (1..Len(df)) \ visited : \E t \in Templates :
         /\ q_none(df[r], t)
         /\ visited' = visited \cup {r}
         /\ i' = r
    /\ UNCHANGED <<input, pc, phase, nout, cur, item, loadVars, detVars>>

\* t = random.choice(templates); in t: correct and distractors
Quiz_Sample ==
    /\ gen = "generate_quiz" /\ pc = "loop"
    /\ Cardinality(visited) < sample_size(df, n)
    /\ \E r \in (1..Len(df)) \ visited : \E t \in Templates :
         /\ ~q_raises(df[r], t) /\ ~q_none(df[r], t)
         /\ \E loc \in q_locals(df, df[r], t) : cur' = loc
         /\ visited' = visited \cup {r}
         /\ i' = r
    /\ pc' = "sampled"
    /\ UNCHANGED <<input, phase, nout, item, loadVars, detVars>>

\* options = [correct] + distractors; random.shuffle(options); quiz.append(q)
Quiz_Append ==
    /\ gen = "generate_quiz" /\ pc = "sampled"
    /\ \E options \in shuffle(<<cur.correct>> \o cur.distractors) :
         item' = Item(cur.type, cur.title, cur.correct, options)
    /\ nout' = nout + 1
    /\ cur' = NoLocals
    /\ pc' = "appended"
    /\ UNCHANGED <<input, i, phase, visited, loadVars, detVars>>

\* on to the next sampled row
Quiz_Next ==
    /\ gen = "generate_quiz" /\ pc = "appended"
    /\ pc' = "loop" /\ item' = NoItem
    /\ UNCHANGED <<input, i, phase, visited, nout, cur, loadVars, detVars>>

\* the sampled rows are exhausted: return quiz
Quiz_Return ==
    /\ gen = "generate_quiz" /\ pc = "loop"
    /\ Cardinality(visited) = sample_size(df, n)
    /\ pc' = "done"
    /\ UNCHANGED <<input, i, phase, visited, nout, cur, item, loadVars, detVars>>

----------------------------------------------------------------------------
(* project/scripts/question_gen.py: the script-level loop *)

\* pool * m
RECURSIVE repeat(_, _)
repeat(pool, m) == IF m = 0 THEN <<>> ELSE pool \o repeat(pool, m - 1)

Maximum(a, b) == IF a >= b THEN a ELSE b

\* the pool sample_other draws from, padded when short
other_pool(series, correct, m) ==
    LET pool == without(unique(series), correct)
    IN IF Len(pool) < m
       THEN Take(repeat(pool, (m \div Maximum(1, Len(pool))) + 2), m)
       ELSE pool

\* random.sample(pool, n) raises ValueError
other_raises(series, correct, m) == Len(other_pool(series, correct, m)) < m

\* sample_other(series, correct, n)
sample_other(series, correct, m) == sample(other_pool(series, correct, m), m)

\* Python truth of a cell read with r.get(...)
truthy(x) == x.t # "none" /\ (x.t = "str" => x.v # <<>>)

script_field(ph) == IF ph = "year" THEN "year" ELSE "main_actor"

\* if year and str(year).strip()
script_asks(row, ph) ==
    truthy(row[script_field(ph)]) /\ strip(str(row[script_field(ph)])) # <<>>

\* df['year'].astype(str)
astype_str(col) == [j \in 1..Len(col) |-> str(col[j])]

script_series(d, ph) == astype_str(Col(d, script_field(ph)))

\* the row has no value for this question: nothing is appended
Script_Skip ==
    /\ gen = "script" /\ pc = "loop" /\ i <= Len(df)
    /\ ~script_asks(df[i], phase)
    /\ IF phase = "year" THEN phase' = "actor" /\ i' = i
       ELSE phase' = "year" /\ i' = i + 1
    /\ UNCHANGED <<input, pc, visited, nout, cur, item, loadVars, detVars>>

\* sample_other raises: the exception ends the script
Script_Raise ==
    /\ gen = "script" /\ pc = "loop" /\ i <= Len(df)
    /\ script_asks(df[i], phase)
    /\ other_raises(script_series(df, phase), str(df[i][script_field(phase)]), K)
    /\ pc' = "raised"
    /\ UNCHANGED <<input, i, phase, visited, nout, cur, item, loadVars, detVars>>

\* correct = str(year); distractors = sample_other(...)
Script_Sample ==
    /\ gen = "script" /\ pc = "loop" /\ i <= Len(df)
    /\ script_asks(df[i], phase)
    /\ ~other_raises(script_series(df, phase), str(df[i][script_field(phase)]), K)
    /\ \E distractors \in sample_other(script_series(df, phase),
                                       str(df[i][script_field(phase)]), K) :
         cur' = Locals(phase, str(df[i].title), str(df[i][script_field(phase)]),
                       distractors)
    /\ pc' = "sampled"
    /\ UNCHANGED <<input, i, phase, visited, nout, item, loadVars, detVars>>

\* q = {... 'd1': distractors[0], 'd2': ..., 'd3': ...}; questions.append(q)
Script_Append ==
    /\ gen = "script" /\ pc = "sampled"
    /\ item' = Item(cur.type, cur.title, cur.correct, Take(cur.distractors, K))
    /\ nout' = nout + 1
    /\ cur' = NoLocals
    /\ pc' = "appended"
    /\ UNCHANGED <<input, i, phase, visited, loadVars, detVars>>

\* on to the next question of the row, or to the next row
Script_Next ==
    /\ gen = "script" /\ pc = "appended"
    /\ IF phase = "year" THEN phase' = "actor" /\ i' = i
       ELSE phase' = "year" /\ i' = i + 1
    /\ pc' = "loop" /\ item' = NoItem
    /\ UNCHANGED <<input, visited, nout, cur, loadVars, detVars>>

\* the rows are exhausted: shuffle and write the questions
Script_Finish ==
    /\ gen = "script" /\ pc = "loop" /\ i > Len(df)
    /\ pc' = "done"
    /\ UNCHANGED <<input, i, phase, visited, nout, cur, item, loadVars, detVars>>

----------------------------------------------------------------------------
(* Specification of the generators *)

Gens == {"make_questions", "generate_quiz", "script"}

LoadIdle == lines = <<>> /\ rows = <<>> /\ frame = <<>> /\ lpc = "idle"
DetIdle ==
    run = 0 /\ seed = 0 /\ rng = <<>> /\ todo = <<>> /\ out = <<>> /\ outs = <<>>

Init ==
    /\ gen \in Gens
    /\ raw \in Datasets
    /\ df = IF gen = "make_questions" THEN read_csv(raw) ELSE load_clean(read_csv(raw))
    /\ n \in IF gen = "script" THEN {0} ELSE 1..MaxCount
    /\ pc = "loop" /\ i = 1 /\ phase = "year" /\ visited = {}
    /\ nout = 0 /\ cur = NoLocals /\ item = NoItem
    /\ LoadIdle /\ DetIdle

Next ==
    \/ MQ_Continue \/ MQ_Sample \/ MQ_Append \/ MQ_Break \/ MQ_Return
    \/ Quiz_Raise \/ Quiz_None \/ Quiz_Sample \/ Quiz_Append \/ Quiz_Next \/ Quiz_Return
    \/ Script_Skip \/ Script_Raise \/ Script_Sample \/ Script_Append \/ Script_Next
    \/ Script_Finish

Spec == Init /\ [][Next]_vars

----------------------------------------------------------------------------
(* project/scripts/question_gen.py: load_dataset, the parse *)

Cols == <<"title", "year", "director", "main_actor", "genres", "rating">>

Header ==
    <<"title", ",", "year", ",", "director", ",", "main_actor", ",", "genres", ",",
      "rating">>

\* the data lines a file is made of
LineCatalogue ==
    << <<"Matrix", ",", "1999", ",", "Wachowski", ",", "Reeves", ",",
         "Action", "|", "SciFi", ",", "8.7">>,
       <<"Speed", ",", "1994", ",", "deBont", ",", "Reeves", ",",
         "Action", ",", " ", "Drama", ",", "7.3">>,
       <<"Up", ",", "2009">>,
       <<"Lost", ",", ",", ",", ",">>,
       <<"Big", ",", "1988", ",", "Marshall", ",", "Hanks", ",",
         " ", "Comedy", " ", "|", " ", "|", "Drama", "|", ",", "7.3">> >>

Files ==
    UNION {{<<Header>> \o [j \in 1..m |-> LineCatalogue[f[j]]]
              : f \in [1..m -> 1..Len(LineCatalogue)]}
            : m \in 0..MaxLines}

\* the python engine takes the fields the first data line has beyond the header
\* as an implicit index
index_cols(text) ==
    IF Len(text) < 2 THEN 0 ELSE Maximum(0, Len(split(text[2], ",")) - Len(Cols))

\* pd.read_csv(url, engine='python') raises: a line has more fields than expected
strict_fails(text) ==
    \E j \in 2..Len(text) : Len(split(text[j], ",")) > Len(Cols) + index_cols(text)

\* a row of cells as a record over the header's columns; a short row is padded
as_record(cells, pad) ==
    [c \in {Cols[k] : k \in 1..Len(Cols)} \cup {"genres_list"} |->
        IF c = "genres_list" THEN <<>>
        ELSE LET k == CHOOSE m \in 1..Len(Cols) : Cols[m] = c
             IN IF k <= Len(cells) THEN cells[k] ELSE pad]

\* the python engine's cell: an empty field is NaN
parsed_cell(s) == IF s = <<>> THEN NaN ELSE StrCell(s)

\* the parser's type inference: a column whose present cells are all numbers
infer(d, c) ==
    IF \A j \in 1..Len(d) : d[j][c].t = "nan" \/ to_numeric(d[j][c]).t # "nan"
    THEN numeric(d, c) ELSE d

RECURSIVE infer_all(_, _)
infer_all(d, k) == IF k = 0 THEN d ELSE infer(infer_all(d, k - 1), Cols[k])

\* pd.read_csv(url, engine='python'): the index fields are set aside, short rows
\* are filled with NaN, numeric columns are converted
strict_frame(text) ==
    LET data(line) == SubSeq(split(line, ","), index_cols(text) + 1,
                             Len(split(line, ",")))
        cells(line) == [k \in 1..Len(data(line)) |-> parsed_cell(data(line)[k])]
        d == [j \in 1..(Len(text) - 1) |-> as_record(cells(text[j + 1]), NaN)]
    IN infer_all(d, Len(Cols))

\* the body of "for line in txt"
fallback_row(line) ==
    LET parts == split(line, ",")
    IN IF Len(parts) <= ExpectedCols THEN parts
       ELSE <<parts[1], parts[2], parts[3], parts[4],
              join(SubSeq(parts, 5, Len(parts) - 1), ","), parts[Len(parts)]>>

\* pd.DataFrame(rows[1:], columns=rows[0]): short rows are filled with None
DataFrame(data) ==
    [j \in 1..Len(data) |->
        as_record([k \in 1..Len(data[j]) |-> StrCell(data[j][k])], None)]

\* try: df = pd.read_csv(url, engine='python')
Load_Strict ==
    /\ lpc = "read" /\ ~strict_fails(lines)
    /\ frame' = strict_frame(lines)
    /\ lpc' = "parsed"
    /\ UNCHANGED <<lines, rows, genVars, detVars>>

\* except Exception: txt = ...splitlines(); rows = []
Load_Except ==
    /\ lpc = "read" /\ strict_fails(lines)
    /\ rows' = <<>>
    /\ lpc' = "fallback"
    /\ UNCHANGED <<lines, frame, genVars, detVars>>

\* for line in txt: ... rows.append(...)
Load_Line ==
    /\ lpc = "fallback" /\ Len(rows) < Len(lines)
    /\ rows' = Append(rows, fallback_row(lines[Len(rows) + 1]))
    /\ UNCHANGED <<lines, frame, lpc, genVars, detVars>>

\* df = pd.DataFrame(rows[1:], columns=rows[0])
Load_Frame ==
    /\ lpc = "fallback" /\ Len(rows) = Len(lines)
    /\ frame' = DataFrame(Tail(rows))
    /\ lpc' = "parsed"
    /\ UNCHANGED <<lines, rows, genVars, detVars>>

\* clean and normalize, convert numeric, split genres; return df
Load_Clean ==
    /\ lpc = "parsed"
    /\ frame' = load_clean(frame)
    /\ lpc' = "done"
    /\ UNCHANGED <<lines, rows, genVars, detVars>>

GenIdle ==
    /\ gen = "none" /\ raw = <<>> /\ df = <<>> /\ n = 0 /\ pc = "idle" /\ i = 0
    /\ phase = "year" /\ visited = {} /\ nout = 0 /\ cur = NoLocals /\ item = NoItem

LoadInit ==
    /\ lines \in Files
    /\ rows = <<>> /\ frame = <<>> /\ lpc = "read"
    /\ GenIdle /\ DetIdle

LoadNext == Load_Strict \/ Load_Except \/ Load_Line \/ Load_Frame \/ Load_Clean

SpecLoad == LoadInit /\ [][LoadNext]_vars

----------------------------------------------------------------------------
(* Two calls of a generator in one process, with the same arguments.       *)
(* random and np.random are deterministic generators: a state, a step,     *)
(* and the number a state yields.  random.seed and np.random.seed set the  *)
(* state from the seed; nothing else does.  The lists are built as         *)
(* CPython builds them from the numbers drawn.                             *)

RngStates == 0..(RngMod - 1)
Seeds == {42, 7}

seeded(sd) == sd % RngMod
step(s) == (s + 3) % RngMod
randbelow(s, k) == s % k

Drawn(val, s) == [val |-> val, s |-> s]

\* random.choice(seq)
choice_det(seq, s) == Drawn(seq[randbelow(s, Len(seq)) + 1], step(s))

\* random.sample(population, k): pick, then move the last of the pool into the gap
RECURSIVE sample_det(_, _, _)
sample_det(pool, k, s) ==
    IF k = 0 THEN Drawn(<<>>, s)
    ELSE LET m == Len(pool)
             j == randbelow(s, m) + 1
             rest == sample_det(SubSeq([pool EXCEPT ![j] = pool[m]], 1, m - 1),
                                k - 1, step(s))
         IN Drawn(<<pool[j]>> \o rest.val, rest.s)

\* random.shuffle(x): for i in reversed(range(1, len(x))): swap x[i], x[randbelow(i + 1)]
RECURSIVE shuffle_from(_, _, _)
shuffle_from(x, k, s) ==
    IF k < 2 THEN Drawn(x, s)
    ELSE LET j == randbelow(s, k) + 1
         IN shuffle_from([x EXCEPT ![k] = x[j], ![j] = x[k]], k - 1, step(s))

shuffle_det(x, s) == shuffle_from(x, Len(x), s)

Raised == Item("raised", <<>>, <<>>, <<>>)

\* the body of make_questions' loop for one row: the dict appended, or none
det_mq_row(d, row, s) ==
    IF isna(row.title) THEN Drawn(NoItem, s)
    ELSE LET qt == choice_det(<<"year", "actor", "genre">>, s)
         IN IF isna(row[mq_field(qt.val)]) THEN Drawn(NoItem, qt.s)
            ELSE LET correct == mq_correct(row, qt.val)
                     candidates == without(unique(dropna_str(Col(d, mq_field(qt.val)))),
                                           correct)
                     distract == IF candidates = <<>> THEN Drawn(<<>>, qt.s)
                                 ELSE sample_det(candidates,
                                                 Minimum(K, Len(candidates)), qt.s)
                     choices == shuffle_det(mq_choices(correct, distract.val), distract.s)
                 IN Drawn(Item(qt.val, str(row.title), correct, slots(choices.val)),
                          choices.s)

\* all_genres as a list: the set's order is fixed within a process
RECURSIVE flatten(_)
flatten(lists) == IF lists = <<>> THEN <<>> ELSE Head(lists) \o flatten(Tail(lists))

all_genres_list(d) == unique(flatten(Col(d, "genres_list")))

\* t = random.choice(templates); q = t(df, row): the dict, none, or Raised
det_quiz_row(d, row, s) ==
    LET t == choice_det(<<"year", "actor", "director", "genre">>, s)
    IN IF q_raises(row, t.val) THEN Drawn(Raised, t.s)
       ELSE IF q_none(row, t.val) THEN Drawn(NoItem, t.s)
       ELSE IF t.val = "genre"
       THEN LET correct == choice_det(row.genres_list, t.s)
                pool == without(all_genres_list(d), correct.val)
                distractors == IF Len(pool) >= K THEN sample_det(pool, K, correct.s)
                               ELSE Drawn(pool, correct.s)
                options == shuffle_det(<<correct.val>> \o distractors.val, distractors.s)
            IN Drawn(Item(t.val, str(row.title), correct.val, options.val), options.s)
       ELSE LET correct == str(q_correct(row, t.val))
                vals == without(unique(dropna_str(Col(d, q_field(t.val)))), correct)
                distractors == sample_det(vals, Minimum(K, Len(vals)), t.s)
                options == shuffle_det(<<correct>> \o distractors.val, distractors.s)
            IN Drawn(Item(t.val, str(row.title), correct, options.val), options.s)

det_row(d, row, s) ==
    IF gen = "make_questions" THEN det_mq_row(d, row, s) ELSE det_quiz_row(d, row, s)

\* make_questions: random.seed(seed); np.random.seed(seed); for i, row in df.iterrows()
Det_BeginMQ ==
    /\ gen = "make_questions" /\ pc = "start" /\ run \in {1, 2}
    /\ rng' = [py |-> seeded(seed), np |-> seeded(seed)]
    /\ todo' = [j \in 1..Len(df) |-> j]
    /\ out' = <<>>
    /\ pc' = "loop"
    /\ UNCHANGED <<input, i, phase, visited, nout, cur, item, run, seed, outs, loadVars>>

\* generate_quiz: sample_rows = df.sample(n=min(n, len(df)), random_state=None)
Det_BeginQuiz ==
    /\ gen = "generate_quiz" /\ pc = "start" /\ run \in {1, 2}
    /\ LET picked == sample_det([j \in 1..Len(df) |-> j], sample_size(df, n), rng.np)
       IN /\ todo' = picked.val
          /\ rng' = [rng EXCEPT !.np = picked.s]
    /\ out' = <<>>
    /\ pc' = "loop"
    /\ UNCHANGED <<input, i, phase, visited, nout, cur, item, run, seed, outs, loadVars>>

DetFinished ==
    \/ todo = <<>>
    \/ gen = "make_questions" /\ out # <<>> /\ mq_break(Len(out), n)
    \/ out # <<>> /\ out[Len(out)] = Raised

\* one pass of the loop body
Det_Row ==
    /\ pc = "loop" /\ run \in {1, 2} /\ ~DetFinished
    /\ LET res == det_row(df, df[Head(todo)], rng.py)
       IN /\ out' = IF res.val = NoItem THEN out ELSE Append(out, res.val)
          /\ rng' = [rng EXCEPT !.py = res.s]
    /\ todo' = Tail(todo)
    /\ UNCHANGED <<input, pc, i, phase, visited, nout, cur, item, run, seed, outs, loadVars>>

\* return out / return quiz, or the exception leaves the call
Det_End ==
    /\ pc = "loop" /\ run \in {1, 2} /\ DetFinished
    /\ outs' = Append(outs, out)
    /\ run' = run + 1
    /\ pc' = IF run = 1 THEN "start" ELSE "done"
    /\ UNCHANGED <<input, i, phase, visited, nout, cur, item, seed, rng, todo, out, loadVars>>

DetInit ==
    /\ gen \in {"make_questions", "generate_quiz"}
    /\ raw \in Datasets
    /\ df = IF gen = "make_questions" THEN read_csv(raw) ELSE load_clean(read_csv(raw))
    /\ n \in 1..MaxCount
    /\ seed \in Seeds
    /\ rng \in [py : RngStates, np : RngStates]
    /\ run = 1 /\ pc = "start" /\ todo = <<>> /\ out = <<>> /\ outs = <<>>
    /\ i = 0 /\ phase = "year" /\ visited = {} /\ nout = 0
    /\ cur = NoLocals /\ item = NoItem
    /\ LoadIdle

DetNext == Det_BeginMQ \/ Det_BeginQuiz \/ Det_Row \/ Det_End

SpecDet == DetInit /\ [][DetNext]_vars

----------------------------------------------------------------------------
(* What the claims speak of *)

Building == pc = "sampled"
Counted == gen \in {"make_questions", "generate_quiz"}

\* the attribute a question kind asks for
KindField(kind) ==
    CASE kind = "year" -> "year"
      [] kind = "actor" -> "main_actor"
      [] kind = "director" -> "director"
      [] OTHER -> "genres"

\* the tags of a genre field: split on "|" if present, else on ","
Tags(cell) == Range(split_genres(cell))

\* the record has no value for the kind
Absent(rec, kind) ==
    IF kind = "genre" THEN Tags(rec.genres) = {} ELSE isna(rec[KindField(kind)])

\* the value of a present cell: the year, or the trimmed text
ValueOf(cell) == IF cell.t = "str" THEN strip(cell.v) ELSE cell.v

\* the distinct non-absent values of the kind's attribute over the data set
Domain(kind) ==
    IF kind = "genre" THEN UNION {Tags(raw[j].genres) : j \in 1..Len(raw)}
    ELSE {ValueOf(raw[j][KindField(kind)])
            : j \in {m \in 1..Len(raw) : ~isna(raw[m][KindField(kind)])}}

\* the value the question's answer stands for
AnswerValue ==
    IF cur.type = "genre" \/ isna(raw[i][KindField(cur.type)]) THEN cur.correct
    ELSE ValueOf(raw[i][KindField(cur.type)])

IsPermutation(a, b) ==
    /\ Len(a) = Len(b)
    /\ \A x \in Range(a) \cup Range(b) : CountOf(a, x) = CountOf(b, x)

NonEmpty(s) == s # <<>>

\* the options an item presents: the non-empty d1..d4, or options
Presented(it) ==
    IF gen = "make_questions" THEN SelectSeq(it.options, NonEmpty) ELSE it.options

----------------------------------------------------------------------------
(* C1: in every question built by any of the generators the correct answer *)
(* is not among the distractors and no distractor occurs twice.            *)
C1_DistinctDistractors ==
    Building =>
        /\ cur.correct \notin Range(cur.distractors)
        /\ NoDup(cur.distractors)

(* C2: every question has min(K, |domain \ {correct}|) distractors, the    *)
(* domain being the distinct non-absent values of the attribute over the   *)
(* data set (for genre, the tags of all records).                          *)
C2_DistractorCount ==
    Building =>
        Len(cur.distractors)
            = Minimum(K, Cardinality(Domain(cur.type) \ {AnswerValue}))

(* C4: a record without a value for an attribute yields no question of     *)
(* that kind, and the generator goes on to the next record.                *)
C4_AbsentYieldsNothing ==
    /\ Building => ~Absent(raw[i], cur.type)
    /\ (gen = "generate_quiz" /\ pc = "raised") => ~Absent(raw[i], "year")

(* C5: no exception leaves a generator whatever the data; an empty data    *)
(* set gives an empty result.                                              *)
C5_NeverRaises ==
    /\ pc # "raised"
    /\ (pc = "done" /\ Len(raw) = 0) => nout = 0

(* C6: make_questions and generate_quiz return at most count items and at  *)
(* most one per record, and build no question once count items exist.      *)
C6_CountIsUpperBound ==
    Counted =>
        /\ nout <= n
        /\ nout <= Len(raw)
        /\ gen = "make_questions" => nout <= i
        /\ gen = "generate_quiz" => nout <= Cardinality(visited)
        /\ Building => nout < n

C6_Witness ==
    gen = "make_questions" /\ pc = "done" /\ nout = n /\ i < Len(df)

(* C9: the options of an appended question are a permutation of the        *)
(* correct answer followed by the sampled distractors: the stored answer   *)
(* occurs exactly once, there are 1 + len(distractors) <= 4 options, and   *)
(* the stored answer is the one the question was built with.               *)
C9_OptionsArePermutation ==
    [][(Counted /\ pc = "sampled" /\ pc' = "appended") =>
          /\ item'.correct = cur.correct
          /\ IsPermutation(Presented(item'), <<cur.correct>> \o cur.distractors)
          /\ CountOf(Presented(item'), item'.correct) = 1
          /\ Len(Presented(item')) = 1 + Len(cur.distractors)
          /\ Len(Presented(item')) <= MaxChoices]_vars

\* the same of the choices list itself, whether or not a choice is empty
C9_ChoicesArePermutation ==
    [][(Counted /\ pc = "sampled" /\ pc' = "appended") =>
          LET shown == Take(item'.options, 1 + Len(cur.distractors))
          IN /\ item'.correct = cur.correct
             /\ IsPermutation(shown, <<cur.correct>> \o cur.distractors)
             /\ CountOf(shown, item'.correct) = 1
             /\ Len(shown) <= MaxChoices]_vars

(* C10: in a genre question every distractor is a wrong answer for the     *)
(* source record: no distractor is a tag of the record's own genre list,   *)
(* nor a genre string that contains the correct tag.                       *)
C10_DistractorsAreWrongAnswers ==
    (Counted /\ Building /\ cur.type = "genre") =>
        \A x \in Range(cur.distractors) :
            /\ x \notin Tags(raw[i].genres)
            /\ cur.correct \notin Tags(StrCell(x))

\* what the two generators do keep: a genre distractor differs from the
\* correct answer and is a genre value of the data set, in q_genre a tag of
\* some record's genres_list, in make_questions some record's whole field
C10_DistractorsDifferFromAnswer ==
    (Counted /\ Building /\ cur.type = "genre") =>
        \A x \in Range(cur.distractors) :
            /\ x # cur.correct
            /\ gen = "generate_quiz" => x \in all_genres(df)
            /\ gen = "make_questions" =>
                 \E j \in 1..Len(df) : ~isna(df[j].genres) /\ x = str(df[j].genres)

----------------------------------------------------------------------------
(* What the loader claims speak of *)

\* the data lines of the file, each split on ","
DataParts == [j \in 1..(Len(lines) - 1) |-> split(lines[j + 1], ",")]

WellFormed(parts) == Len(parts) >= ExpectedCols

\* the genre field of a line: what lies between the fourth field and the last
GenreField(parts) ==
    IF Len(parts) > ExpectedCols THEN join(SubSeq(parts, 5, Len(parts) - 1), ",")
    ELSE parts[5]

HasGenreField(parts) == Len(parts) >= 5

\* the tags of a genre field
ExpectedTags(parts) ==
    IF ~HasGenreField(parts) \/ strip(GenreField(parts)) = <<>> THEN <<>>
    ELSE IF contains(GenreField(parts), "|")
         THEN stripped_nonempty(split(GenreField(parts), "|"))
         ELSE stripped_nonempty(split(GenreField(parts), ","))

(* C7: in the fallback parse a line whose genre field holds the delimiter  *)
(* becomes one record of six columns, and a line with too few columns is   *)
(* skipped: the frame holds exactly the well-formed lines.                 *)
C7_MalformedRowsSkipped ==
    (lpc = "done" /\ rows # <<>>) =>
        LET good == SelectSeq(DataParts, WellFormed)
        IN /\ Len(frame) = Len(good)
           /\ \A j \in 1..Len(good) :
                /\ j <= Len(frame)
                /\ frame[j].title.v = strip(good[j][1])
                /\ frame[j].genres.v = strip(GenreField(good[j]))

(* C8: the genre list of every loaded record is its genre field split on   *)
(* "|" if the field holds one and on "," otherwise, the tags trimmed and   *)
(* the empty ones dropped; an empty or missing field gives the empty list. *)
C8_GenreListIsSplitField ==
    (lpc = "done" /\ Len(frame) = Len(DataParts)) =>
        \A j \in 1..Len(frame) : frame[j].genres_list = ExpectedTags(DataParts[j])

----------------------------------------------------------------------------
(* C3: two calls with the same seed, count and records return the same     *)
(* list of questions, for make_questions and for generate_quiz.            *)
C3_SameArgumentsSameQuestions ==
    run = 3 => outs[1] = outs[2]

\* the part of C3 that is about make_questions
MakeQuestionsRepeats ==
    (run = 3 /\ gen = "make_questions") => outs[1] = outs[2]

====
